---- MODULE Spec2Model ----
(***************************************************************************)
(* Model of "Python code/FPL_API.py": the fixture-difficulty (FDR) fetch   *)
(* get_fpl_fdr and the ranking analyze_next_5_fixtures_fdr.                *)
(*                                                                         *)
(* The state is the upstream fixture list the API serves, the FDR          *)
(* spreadsheets on disk and the outcome of the last call.  A DataFrame is   *)
(* a sequence of records (one per row).  The columns kickoff_time and      *)
(* finished are copied through unchanged by the code and are left out.     *)
(* Every sample fixture has a gameweek (no null event), and the analysis   *)
(* spreadsheets are followed only through the name the last call saved.    *)
(***************************************************************************)
EXTENDS Integers, Sequences, FiniteSets, TLC

VARIABLES api, files, ret

vars == <<api, files, ret>>

(***************************************************************************)
(* Bounds of the model and the sample inputs.                              *)
(***************************************************************************)
\* longest fixture list of arbitrary fixtures
MaxFixtures == 2
\* longest fixture list of one club's run of fixtures
MaxRun == 6
\* start_gameweek ranges over -BackStarts..MaxStart
BackStarts == 3
MaxStart == 3

\* bootstrap-static "teams": id -> name
BootstrapTeams == (1 :> "Arsenal") @@ (2 :> "Burnley") @@ (3 :> "Chelsea")

TeamIds == DOMAIN BootstrapTeams

\* the lookups a bootstrap response can yield: complete, or lacking club 3
TeamLookups == {BootstrapTeams, [id \in {1, 2} |-> BootstrapTeams[id]]}

\* the ratings of a fixture as the API publishes them: a club's rating is
\* its opponent's strength, one harder for the visitors
Strength == (1 :> 3) @@ (2 :> 2) @@ (3 :> 2)

RawFixture(id, event, h, a) ==
    [id |-> id, event |-> event, team_h |-> h, team_a |-> a,
     team_h_difficulty |-> Strength[a], team_a_difficulty |-> Strength[h] + 1]

\* Fixture i of a list is scheduled in gameweek i; a postponed fixture is
\* played two gameweeks later, which makes double gameweeks and lists that
\* are not in gameweek order.
Gameweeks(id) == {id, id + 2}

\* arbitrary fixtures: any club at home to any other
Pairings == {p \in TeamIds \X TeamIds : p[1] # p[2]}

AnyFixtures(id) ==
    {RawFixture(id, e, p[1], p[2]) : e \in Gameweeks(id), p \in Pairings}

\* the run of club 1, which plays in every gameweek: at home to club 2,
\* then away to club 3, and so on
RunFixtures(id) ==
    {RawFixture(id, e, IF id % 2 = 1 THEN 1 ELSE 3, IF id % 2 = 1 THEN 2 ELSE 1)
        : e \in Gameweeks(id)}

\* the lists of at most n fixtures, fixture i drawn from AnyFixtures(i)
RECURSIVE AnyLists(_)
AnyLists(n) ==
    IF n = 0 THEN {<<>>}
    ELSE LET shorter == AnyLists(n - 1)
         IN  shorter \cup
             {Append(s, f) : s \in {t \in shorter : Len(t) = n - 1},
                             f \in AnyFixtures(n)}

RECURSIVE RunLists(_)
RunLists(n) ==
    IF n = 0 THEN {<<>>}
    ELSE LET shorter == RunLists(n - 1)
         IN  shorter \cup
             {Append(s, f) : s \in {t \in shorter : Len(t) = n - 1},
                             f \in RunFixtures(n)}

\* the fixture lists the API may serve
Schedules == AnyLists(MaxFixtures) \cup RunLists(MaxRun)

\* event_id: <<>> is None, <<k>> is the integer k
EventIds == {<<>>, <<0>>, <<1>>}

StartGameweeks == (0 - BackStarts)..MaxStart

(***************************************************************************)
(* Files.                                                                  *)
(***************************************************************************)
\* a file is absent, or holds the rows written by to_excel
Missing == [exists |-> FALSE, rows |-> <<>>]

Stored(df) == [exists |-> TRUE, rows |-> df]

Truthy(event_id) == event_id # <<>> /\ event_id[1] # 0

FdrFileName(event_id) ==
    IF Truthy(event_id)
    THEN "fpl_fdr_gw" \o ToString(event_id[1]) \o ".xlsx"
    ELSE "fpl_fdr_all.xlsx"

FileNames == {FdrFileName(e) : e \in EventIds}

\* what GET fixtures/ (optionally ?event=k) answers
FixturesResponse(event_id) ==
    IF Truthy(event_id)
    THEN SelectSeq(api, LAMBDA f : f.event = event_id[1])
    ELSE api

(***************************************************************************)
(* get_fpl_fdr: flattening.                                                *)
(***************************************************************************)
\* the loop either raises KeyError or ends with the list it built
KeyError == [raised |-> TRUE, rows |-> <<>>]

Built(fdr_data) == [raised |-> FALSE, rows |-> fdr_data]

HomeEntry(fixture, teams) ==
    [fixture_id |-> fixture.id, gameweek |-> fixture.event,
     team |-> teams[fixture.team_h], opponent |-> teams[fixture.team_a],
     home_away |-> "Home", difficulty_rating |-> fixture.team_h_difficulty]

\* a bug: the away entry carries the home side's rating
AwayEntryHomeRating(fixture, teams) ==
    [fixture_id |-> fixture.id, gameweek |-> fixture.event,
     team |-> teams[fixture.team_a], opponent |-> teams[fixture.team_h],
     home_away |-> "Away", difficulty_rating |-> fixture.team_h_difficulty]

AwayEntry(fixture, teams) ==
    [fixture_id |-> fixture.id, gameweek |-> fixture.event,
     team |-> teams[fixture.team_a], opponent |-> teams[fixture.team_h],
     home_away |-> "Away", difficulty_rating |-> fixture.team_a_difficulty]

\* teams[...] raises KeyError for an id that is not in the lookup
Known(fixture, teams) ==
    fixture.team_h \in DOMAIN teams /\ fixture.team_a \in DOMAIN teams

RECURSIVE FlattenFrom(_, _, _, _)
FlattenFrom(fixtures_data, teams, i, fdr_data) ==
    IF i > Len(fixtures_data) THEN Built(fdr_data)
    ELSE IF ~Known(fixtures_data[i], teams) THEN KeyError
    ELSE FlattenFrom(fixtures_data, teams, i + 1,
                     fdr_data \o <<HomeEntry(fixtures_data[i], teams),
                                   AwayEntry(fixtures_data[i], teams)>>)

\* a bug: the loop stops at a fixture with an unknown club and keeps what
\* it has built
RECURSIVE FlattenKnownPrefix(_, _, _, _)
FlattenKnownPrefix(fixtures_data, teams, i, fdr_data) ==
    IF i > Len(fixtures_data) THEN Built(fdr_data)
    ELSE IF ~Known(fixtures_data[i], teams) THEN Built(fdr_data)
    ELSE FlattenKnownPrefix(fixtures_data, teams, i + 1,
                            fdr_data \o <<HomeEntry(fixtures_data[i], teams),
                                          AwayEntry(fixtures_data[i], teams)>>)

FlattenLenient(fixtures_data, teams) ==
    FlattenKnownPrefix(fixtures_data, teams, 1, <<>>)

Flatten(fixtures_data, teams) == FlattenFrom(fixtures_data, teams, 1, <<>>)

\* A call and what it hands back: the argument, the ids of the bootstrap
\* lookup it was served, its status ("ok", or the class of the exception it
\* caught and printed), the frame returned (<<>> for None) and the name of
\* the file it saved.
Outcome(op, arg, known, status, df, saved) ==
    [op |-> op, arg |-> arg, known |-> known, status |-> status,
     df |-> df, saved |-> saved]

NoCall == Outcome("none", <<>>, {}, "none", <<>>, "")

get_fpl_fdr(event_id, netOk, teams, removeOk, writeOk) ==
    LET fdr_data == Flatten(FixturesResponse(event_id), teams)
        filename == FdrFileName(event_id)
        removed  == IF files[filename].exists /\ removeOk
                    THEN [files EXCEPT ![filename] = Missing]
                    ELSE files
        call(status, df, saved) ==
            Outcome("get_fpl_fdr", event_id, DOMAIN teams, status, df, saved)
    IN  /\ api' = api
        /\ IF ~netOk
           THEN /\ files' = files
                /\ ret' = call("RequestException", <<>>, "")
           ELSE IF fdr_data.raised
           THEN /\ files' = files
                /\ ret' = call("KeyError", <<>>, "")
           ELSE IF ~writeOk
           THEN /\ files' = removed
                /\ ret' = call("OSError", <<>>, "")
           ELSE /\ files' = [files EXCEPT ![filename] = Stored(fdr_data.rows)]
                /\ ret' = call("ok", fdr_data.rows, filename)

(***************************************************************************)
(* analyze_next_5_fixtures_fdr.                                            *)
(***************************************************************************)
\* end_gameweek = start_gameweek + 4
WindowSpan == 4
\* team_data.head(5), and the slots gw1..gw5 of a row
NumSlots == 5

AllFdrFile == "fpl_fdr_all.xlsx"

AnalysisFileName(start_gameweek) ==
    "fpl_next5_fdr_analysis_gw" \o ToString(start_gameweek) \o ".xlsx"

\* a bug: the filter has no upper end
Next5Unbounded(df, start_gameweek) ==
    SelectSeq(df, LAMBDA e : e.gameweek >= start_gameweek)

\* df[(df['gameweek'] >= start_gameweek) & (df['gameweek'] <= end_gameweek)]
Next5(df, start_gameweek) ==
    LET end_gameweek == start_gameweek + WindowSpan
    IN  SelectSeq(df, LAMBDA e : e.gameweek >= start_gameweek
                                 /\ e.gameweek <= end_gameweek)

\* Series.unique(): the values in order of first appearance
RECURSIVE UniqueFrom(_, _, _)
UniqueFrom(frame, i, seen) ==
    IF i > Len(frame) THEN seen
    ELSE IF \E k \in 1..Len(seen) : seen[k] = frame[i].team
         THEN UniqueFrom(frame, i + 1, seen)
         ELSE UniqueFrom(frame, i + 1, Append(seen, frame[i].team))

UniqueTeams(frame) == UniqueFrom(frame, 1, <<>>)

\* The orders an argsort may return for the indices S: every order that is
\* sorted.  sort_values uses kind='quicksort', which is not stable, so rows
\* with equal keys may come out in any relative order.
RECURSIVE Orders(_, _)
Orders(S, leq) ==
    IF S = {} THEN {<<>>}
    ELSE UNION {{<<i>> \o t : t \in Orders(S \ {i}, leq)}
                   : i \in {j \in S : \A k \in S : leq[j][k]}}

Take(frame, order) == [i \in 1..Len(frame) |-> frame[order[i]]]

\* a bug: the rows are left in stored order
UnsortedGameweek(frame) == {frame}

\* frame.sort_values('gameweek')
SortValuesGameweek(frame) ==
    {Take(frame, order) :
        order \in Orders(1..Len(frame),
                         [i \in 1..Len(frame) |-> [j \in 1..Len(frame) |->
                             frame[i].gameweek <= frame[j].gameweek]])}

\* a bug: no truncation
WholeFrame(frame) == frame

\* frame.head(5)
Head5(frame) ==
    SubSeq(frame, 1, IF Len(frame) < NumSlots THEN Len(frame) ELSE NumSlots)

RECURSIVE SumFrom(_, _)
SumFrom(frame, i) ==
    IF i > Len(frame) THEN 0
    ELSE frame[i].difficulty_rating + SumFrom(frame, i + 1)

\* fixtures['difficulty_rating'].sum()
SumRating(fixtures) == SumFrom(fixtures, 1)

\* a bug: the sum is always divided by 5
MeanOverSlots(fixtures) == [num |-> SumFrom(fixtures, 1), den |-> NumSlots]

\* fixtures['difficulty_rating'].mean(): the quotient, kept as a fraction
MeanRating(fixtures) == [num |-> SumFrom(fixtures, 1), den |-> Len(fixtures)]

LeqMean(a, b) == a.num * b.den <= b.num * a.den

\* the blank '' of a slot; a rating slot is <<>> when blank, <<r>> otherwise
BlankSlot == [opponent |-> "", fdr |-> <<>>, home_away |-> ""]

Slot(fixtures, i) ==
    IF Len(fixtures) > i - 1
    THEN [opponent |-> fixtures[i].opponent,
          fdr |-> <<fixtures[i].difficulty_rating>>,
          home_away |-> fixtures[i].home_away]
    ELSE BlankSlot

\* one element of team_analysis; window is not a column of the code's row:
\* it records the frame `fixtures` the row was built from
TeamRow(team, fixtures) ==
    [fdr_rank |-> 0,
     team |-> team,
     fixtures_analyzed |-> Len(fixtures),
     average_fdr |-> MeanRating(fixtures),
     total_fdr |-> SumRating(fixtures),
     slots |-> [i \in 1..NumSlots |-> Slot(fixtures, i)],
     window |-> fixtures]

\* next_5_df[next_5_df['team'] == team]
TeamData(next_5_df, team) == SelectSeq(next_5_df, LAMBDA e : e.team = team)

\* the rows the loop can append for one team
TeamRows(next_5_df, team) ==
    {TeamRow(team, Head5(team_data)) :
        team_data \in {t \in SortValuesGameweek(TeamData(next_5_df, team)) :
                          Len(t) > 0}}

\* the lists team_analysis the loop over the teams can build
RECURSIVE TeamAnalyses(_, _, _)
TeamAnalyses(next_5_df, teams, i) ==
    IF i > Len(teams) THEN {<<>>}
    ELSE {<<row>> \o rest : row \in TeamRows(next_5_df, teams[i]),
                            rest \in TeamAnalyses(next_5_df, teams, i + 1)}

\* a bug: the frame is not sorted
UnsortedAverage(analysis) == {analysis}

\* analysis_df.sort_values('average_fdr')
SortValuesAverage(analysis) ==
    {Take(analysis, order) :
        order \in Orders(1..Len(analysis),
                         [i \in 1..Len(analysis) |-> [j \in 1..Len(analysis) |->
                             LeqMean(analysis[i].average_fdr,
                                     analysis[j].average_fdr)]])}

\* a bug: ranks counted from 0
RankFromZero(analysis) ==
    [i \in 1..Len(analysis) |-> [analysis[i] EXCEPT !.fdr_rank = i - 1]]

\* analysis_df['fdr_rank'] = range(1, len(analysis_df) + 1)
AssignRank(analysis) ==
    [i \in 1..Len(analysis) |-> [analysis[i] EXCEPT !.fdr_rank = i]]

\* the frames analysis_df the call can reach before it saves
Rankings(df, start_gameweek) ==
    LET next_5_df == Next5(df, start_gameweek)
    IN  {AssignRank(sorted) :
            sorted \in UNION {SortValuesAverage(team_analysis) :
                team_analysis \in TeamAnalyses(next_5_df, UniqueTeams(next_5_df), 1)}}

\* a bug: nothing raises on an empty frame
RaisesNothing(df, start_gameweek) == FALSE

\* an empty sheet reads back without columns, so df['gameweek'] raises
\* KeyError; an empty team_analysis makes a frame without columns, so
\* sort_values('average_fdr') raises KeyError
RaisesKeyError(df, start_gameweek) ==
    df = <<>> \/ Next5(df, start_gameweek) = <<>>

analyze_next_5_fixtures_fdr(start_gameweek, writeOk) ==
    LET call(status, df, saved) ==
            Outcome("analyze", <<start_gameweek>>, {}, status, df, saved)
    IN  /\ UNCHANGED <<api, files>>
        /\ IF ~files[AllFdrFile].exists
           THEN ret' = call("NotFound", <<>>, "")
           ELSE LET df == files[AllFdrFile].rows
                IN  IF RaisesKeyError(df, start_gameweek)
                    THEN ret' = call("KeyError", <<>>, "")
                    ELSE \E analysis_df \in Rankings(df, start_gameweek) :
                            IF writeOk
                            THEN ret' = call("ok", analysis_df,
                                             AnalysisFileName(start_gameweek))
                            ELSE ret' = call("OSError", <<>>, "")

Init ==
    /\ api \in Schedules
    /\ files = [f \in FileNames |-> Missing]
    /\ ret = NoCall

\* The calls are made one after the other and the caller drops what a call
\* returns before it makes the next.  The inputs that a failed request or a
\* failed lookup never reads are fixed.
FetchFdr ==
    /\ ret = NoCall
    /\ \E event_id \in EventIds :
        \/ get_fpl_fdr(event_id, FALSE, BootstrapTeams, TRUE, TRUE)
        \/ \E teams \in TeamLookups :
              IF Flatten(FixturesResponse(event_id), teams).raised
              THEN get_fpl_fdr(event_id, TRUE, teams, TRUE, TRUE)
              ELSE \E removeOk \in BOOLEAN, writeOk \in BOOLEAN :
                      get_fpl_fdr(event_id, TRUE, teams, removeOk, writeOk)

Analyze ==
    /\ ret = NoCall
    /\ \E start_gameweek \in StartGameweeks, writeOk \in BOOLEAN :
          analyze_next_5_fixtures_fdr(start_gameweek, writeOk)

Discard ==
    /\ ret # NoCall
    /\ ret' = NoCall
    /\ UNCHANGED <<api, files>>

Next == FetchFdr \/ Analyze \/ Discard

Spec == Init /\ [][Next]_vars

(***************************************************************************)
(* Properties.                                                             *)
(***************************************************************************)
Fetched == ret.op = "get_fpl_fdr" /\ ret.status = "ok"

Analyzed == ret.op = "analyze" /\ ret.status = "ok"

\* the rows returned, the start gameweek asked for and the stored entry set
Rows == ret.df

Start == ret.arg[1]

StoredEntries == files[AllFdrFile].rows

InRange(e) == e.gameweek >= Start /\ e.gameweek <= Start + 4

\* the stored entries of a team that fall in the window [Start, Start + 4]
TeamInRange(team) ==
    {i \in 1..Len(StoredEntries) :
        StoredEntries[i].team = team /\ InRange(StoredEntries[i])}

SameMean(a, b) == a.num * b.den = b.num * a.den

\* place of a team's first entry in the filtered entry set
FirstSeen(team) ==
    CHOOSE i \in TeamInRange(team) : \A k \in TeamInRange(team) : i <= k

Truncated(row) == Cardinality(TeamInRange(row.team)) > 5

\* C1: the rows returned by the analysis are in non-decreasing order of
\* average_fdr.
C1_SortedByAverage ==
    Analyzed =>
        \A i \in 1..(Len(Rows) - 1) :
            Rows[i].average_fdr.num * Rows[i + 1].average_fdr.den
                <= Rows[i + 1].average_fdr.num * Rows[i].average_fdr.den

\* three rows with different averages, the easiest of them not the team met
\* first in the entry set
C1_Witness ==
    /\ Analyzed
    /\ Len(Rows) = 3
    /\ ~SameMean(Rows[1].average_fdr, Rows[2].average_fdr)
    /\ ~SameMean(Rows[2].average_fdr, Rows[3].average_fdr)
    /\ FirstSeen(Rows[1].team) > FirstSeen(Rows[2].team)

RECURSIVE SlotSum(_, _)
SlotSum(row, i) ==
    IF i > 5 THEN 0
    ELSE (IF row.slots[i].fdr = <<>> THEN 0 ELSE row.slots[i].fdr[1])
         + SlotSum(row, i + 1)

\* C3: in every row with fixtures_analyzed > 0, total_fdr is the sum of the
\* ratings in the row's slots and total_fdr = average_fdr * fixtures_analyzed.
C3_TotalAndAverage ==
    Analyzed =>
        \A r \in 1..Len(Rows) :
            Rows[r].fixtures_analyzed > 0 =>
                /\ Rows[r].total_fdr = SlotSum(Rows[r], 1)
                /\ Rows[r].total_fdr * Rows[r].average_fdr.den
                      = Rows[r].average_fdr.num * Rows[r].fixtures_analyzed

\* a row cut to five of six entries, with an average that is no integer,
\* beside a row of fewer entries
C3_Witness ==
    /\ Analyzed
    /\ \E r \in 1..Len(Rows) :
          /\ Truncated(Rows[r])
          /\ Rows[r].fixtures_analyzed = 5
          /\ Rows[r].total_fdr % 5 # 0
    /\ \E r \in 1..Len(Rows) : Rows[r].fixtures_analyzed \in 2..4

\* C4: a successful get_fpl_fdr returns two entries per raw fixture, the
\* home entry then the away entry, with the fixture's id and gameweek, team
\* and opponent swapped, opposite venues and each side's own rating.
C4_TwoEntriesPerFixture ==
    Fetched =>
        LET raw == FixturesResponse(ret.arg)
        IN  /\ Len(ret.df) = 2 * Len(raw)
            /\ \A i \in 1..Len(raw) :
                  LET home == ret.df[2 * i - 1]
                      away == ret.df[2 * i]
                  IN  /\ home.fixture_id = raw[i].id /\ away.fixture_id = raw[i].id
                      /\ home.gameweek = raw[i].event /\ away.gameweek = raw[i].event
                      /\ home.home_away = "Home" /\ away.home_away = "Away"
                      /\ home.team = BootstrapTeams[raw[i].team_h]
                      /\ home.opponent = BootstrapTeams[raw[i].team_a]
                      /\ away.team = home.opponent /\ away.opponent = home.team
                      /\ home.difficulty_rating = raw[i].team_h_difficulty
                      /\ away.difficulty_rating = raw[i].team_a_difficulty

\* a fetch of several fixtures whose two sides are rated differently
C4_Witness ==
    /\ Fetched
    /\ Len(ret.df) >= 4
    /\ \A i \in 1..(Len(ret.df) \div 2) :
          ret.df[2 * i - 1].difficulty_rating # ret.df[2 * i].difficulty_rating

\* C5 as claimed: fdr_rank is 1, 2, ..., n in row order, and of two teams
\* with equal average_fdr the one met first in the filtered entry set has
\* the lower rank.
C5_StableRanks ==
    Analyzed =>
        /\ \A i \in 1..Len(Rows) : Rows[i].fdr_rank = i
        /\ \A i \in 1..Len(Rows) : \A j \in (i + 1)..Len(Rows) :
              SameMean(Rows[i].average_fdr, Rows[j].average_fdr)
                  => FirstSeen(Rows[i].team) < FirstSeen(Rows[j].team)

\* C5 as amended: fdr_rank is 1, 2, ..., n in row order and a lower rank
\* never has a higher average_fdr; the order of teams with equal average_fdr
\* is not fixed.
C5_RanksInRowOrder ==
    Analyzed =>
        /\ \A i \in 1..Len(Rows) : Rows[i].fdr_rank = i
        /\ \A i \in 1..Len(Rows) : \A j \in 1..Len(Rows) :
              Rows[i].fdr_rank < Rows[j].fdr_rank
                  => Rows[i].average_fdr.num * Rows[j].average_fdr.den
                        <= Rows[j].average_fdr.num * Rows[i].average_fdr.den

\* two teams with equal average_fdr, ranked 2 and 3
C5_Witness ==
    /\ Analyzed
    /\ Len(Rows) = 3
    /\ SameMean(Rows[2].average_fdr, Rows[3].average_fdr)
    /\ ~SameMean(Rows[1].average_fdr, Rows[2].average_fdr)

\* C6: a row's window holds the team's stored entries with gameweek in
\* [g, g+4], in ascending gameweek order, cut to the first 5; slot i carries
\* the i-th of them and is blank in all three fields when there is none.
C6_WindowAndSlots ==
    Analyzed =>
        \A r \in 1..Len(Rows) :
            LET w == Rows[r].window
                mine == TeamInRange(Rows[r].team)
                left == {i \in mine : \A k \in 1..Len(w) : w[k] # StoredEntries[i]}
            IN  /\ Len(w) = (IF Cardinality(mine) < 5 THEN Cardinality(mine) ELSE 5)
                /\ Rows[r].fixtures_analyzed = Len(w)
                /\ \A k \in 1..Len(w) : \E i \in mine : w[k] = StoredEntries[i]
                /\ \A k \in 1..Len(w) : \A m \in 1..Len(w) : k # m => w[k] # w[m]
                /\ \A k \in 1..(Len(w) - 1) : w[k].gameweek <= w[k + 1].gameweek
                /\ \A i \in left : StoredEntries[i].gameweek >= w[Len(w)].gameweek
                /\ \A k \in 1..5 :
                      IF k <= Len(w)
                      THEN /\ Rows[r].slots[k].opponent = w[k].opponent
                           /\ Rows[r].slots[k].fdr = <<w[k].difficulty_rating>>
                           /\ Rows[r].slots[k].home_away = w[k].home_away
                      ELSE /\ Rows[r].slots[k].opponent = ""
                           /\ Rows[r].slots[k].fdr = <<>>
                           /\ Rows[r].slots[k].home_away = ""

\* a row with all five slots filled from six entries of which the one left
\* out is not the last one stored, beside a row with blank slots
C6_Witness ==
    /\ Analyzed
    /\ \E r \in 1..Len(Rows) :
          /\ Truncated(Rows[r])
          /\ \A k \in 1..5 : Rows[r].slots[k].opponent # ""
          /\ \E i \in TeamInRange(Rows[r].team) :
                /\ \A k \in 1..5 : Rows[r].window[k] # StoredEntries[i]
                /\ \E j \in TeamInRange(Rows[r].team) : j > i
    /\ \E r \in 1..Len(Rows) :
          Rows[r].fixtures_analyzed < 5 /\ Rows[r].slots[5].opponent = ""

RowTeams == {Rows[r].team : r \in 1..Len(Rows)}

StoredTeams == {StoredEntries[i].team : i \in 1..Len(StoredEntries)}

\* C7 as claimed: every team of the stored entry set has a row, a team
\* without entries in [g, g+4] one with fixtures_analyzed = 0.
C7_RowForEveryStoredTeam ==
    Analyzed => RowTeams = StoredTeams

\* C7 as amended: the teams with a row are the teams with at least one
\* stored entry in [g, g+4], one row each; a team without entries in the
\* window has no row, and no row has fixtures_analyzed = 0.
C7_RowsForWindowTeams ==
    Analyzed =>
        /\ RowTeams = {t \in StoredTeams : TeamInRange(t) # {}}
        /\ \A r \in 1..Len(Rows) : \A q \in 1..Len(Rows) :
              Rows[r].team = Rows[q].team => r = q
        /\ \A r \in 1..Len(Rows) :
              Rows[r].fixtures_analyzed >= 1 /\ Rows[r].slots[1].opponent # ""

\* a stored team with entries only outside the window, and so without a row
C7_Witness ==
    /\ Analyzed
    /\ \E t \in StoredTeams : TeamInRange(t) = {} /\ t \notin RowTeams

\* C8: a call with start_gameweek <= 0 fails: it returns no rows and saves
\* no analysis file.
C8_NonPositiveStartFails ==
    (ret.op = "analyze" /\ Start <= 0) =>
        ret.status # "ok" /\ ret.df = <<>> /\ ret.saved = ""

\* C9: an analysis of a missing or empty entry set fails, returning and
\* saving nothing; a successful analysis returns rows; and the entry set
\* comes into being only through a successful all-gameweeks get_fpl_fdr.
C9_NoRankingWithoutEntries ==
    [][/\ (ret'.op = "analyze" /\ ret = NoCall
             /\ (~files[AllFdrFile].exists \/ files[AllFdrFile].rows = <<>>))
          => (ret'.status # "ok" /\ ret'.df = <<>> /\ ret'.saved = "")
       /\ (ret'.op = "analyze" /\ ret'.status = "ok") => ret'.df # <<>>
       /\ (files'[AllFdrFile].exists /\ ~files[AllFdrFile].exists)
          => (ret'.op = "get_fpl_fdr" /\ ret'.status = "ok" /\ ~Truthy(ret'.arg))
      ]_vars

\* an analysis that failed on a stored but empty entry set
C9_Witness ==
    /\ ret.op = "analyze"
    /\ ret.status = "KeyError"
    /\ files[AllFdrFile].exists
    /\ files[AllFdrFile].rows = <<>>

ClubNames == {BootstrapTeams[id] : id \in TeamIds}

\* C10: a get_fpl_fdr whose fixtures name a club that is not in the lookup
\* fails with KeyError and leaves every stored file as it was; no stored
\* entry lacks a club name.
C10_UnknownClubFails ==
    [][(ret'.op = "get_fpl_fdr" /\ ret'.status # "RequestException") =>
          LET raw == FixturesResponse(ret'.arg)
              unknown == \E i \in 1..Len(raw) :
                            \/ raw[i].team_h \notin ret'.known
                            \/ raw[i].team_a \notin ret'.known
          IN  /\ unknown => (ret'.status = "KeyError" /\ ret'.df = <<>>
                               /\ ret'.saved = "" /\ files' = files)
              /\ \A f \in FileNames : \A i \in 1..Len(files'[f].rows) :
                    /\ files'[f].rows[i].team \in ClubNames
                    /\ files'[f].rows[i].opponent \in ClubNames
      ]_vars

\* a fetch that failed at the second fixture while an earlier entry set was
\* stored under the same name
C10_Witness ==
    /\ ret.op = "get_fpl_fdr"
    /\ ret.status = "KeyError"
    /\ files[FdrFileName(ret.arg)].exists
    /\ files[FdrFileName(ret.arg)].rows # <<>>
    /\ Len(FixturesResponse(ret.arg)) >= 2
    /\ FixturesResponse(ret.arg)[1].team_h \in ret.known
    /\ FixturesResponse(ret.arg)[1].team_a \in ret.known
====
